---- MODULE Spec2Model ----
(***************************************************************************)
(* Radio planning: rate catalog, plan snapshot ("captured station data")   *)
(* and spot metrics, modelled from app/api.py, app/routes.py, app/utils.py *)
(* and app/models.py.                                                      *)
(*                                                                         *)
(* Conventions of the model                                                *)
(*  - A table is a sequence of rows in primary-key order; .first() and     *)
(*    .all() of a filter_by query without ORDER BY return rows in that     *)
(*    order (SQLite table scan).                                           *)
(*  - Rows carry the columns the handlers read and write.  The handlers    *)
(*    use PlanStationData.month and RadioSpot.is_weekend_row, which the    *)
(*    class bodies in models.py do not declare; the model follows the      *)
(*    handlers.  A relationship (spot.station) resolves by foreign key     *)
(*    and an unset column reads as its declared default.                   *)
(*  - Numbers: grp, trp and prices are integers; a seasonal index is in    *)
(*    tenths (10 is 1.0); a discount is a percentage; final_price is kept  *)
(*    exactly, in units of 1/100000 (price * tenths * percent * percent);  *)
(*    affinity and price_per_trp are exact fractions [n, d].               *)
(*  - A time slot "HH:MM-HH:MM" is the tuple <<HH, MM, HH, MM>>; a date is *)
(*    [y, m, d] in the Gregorian calendar.                                 *)
(***************************************************************************)
EXTENDS Integers, Sequences, FiniteSets, TLC

VARIABLES
    stations,      \* RadioStation rows: set of [id, group_id, name]
    ratings,       \* StationRating rows
    prices,        \* StationPrice rows (flat time-slot prices)
    zone_prices,   \* StationZonePrice rows
    seasonal,      \* SeasonalIndex rows
    plans,         \* RadioPlan rows, plan id = position
    captured,      \* PlanStationData rows, id = position
    spots,         \* RadioSpot rows in primary-key order
    last,          \* the last request and its response
    requests,      \* the number of requests served
    inflight       \* per worker, the request it is serving (between its
                   \* lookup and its commit)

vars == <<stations, ratings, prices, zone_prices, seasonal, plans, captured,
          spots, last, requests, inflight>>

catalog == <<stations, ratings, prices, zone_prices, seasonal>>

(***************************************************************************)
(* Bounds of the model.                                                    *)
(***************************************************************************)
MaxPlans == 1
MaxSpots == 2
MaxRequests == 4

\* SeasonalIndex.group_id of a global row (None).
NoGroup == 0

\* The workers that serve requests side by side, and a worker between
\* requests.
Workers == {1, 2}
Idle == [op |-> "idle"]

(***************************************************************************)
(* Dates.                                                                  *)
(***************************************************************************)
Date(y, m, d) == [y |-> y, m |-> m, d |-> d]

DateLE(a, b) ==
    \/ a.y < b.y
    \/ a.y = b.y /\ a.m < b.m
    \/ a.y = b.y /\ a.m = b.m /\ a.d <= b.d

\* Days since 1970-01-01 of a Gregorian date.
DaysFromCivil(dt) ==
    LET yy  == IF dt.m <= 2 THEN dt.y - 1 ELSE dt.y
        era == yy \div 400
        yoe == yy - era * 400
        mp  == IF dt.m > 2 THEN dt.m - 3 ELSE dt.m + 9
        doy == ((153 * mp + 2) \div 5) + dt.d - 1
        doe == yoe * 365 + (yoe \div 4) - (yoe \div 100) + doy
    IN  era * 146097 + doe - 719468

\* date.weekday(): Monday is 0, Sunday is 6.
Weekday(dt) == (DaysFromCivil(dt) + 3) % 7

\* is_weekend = date.weekday() >= 5
IsWeekendDate(dt) == Weekday(dt) >= 5

\* The days of a month of the Gregorian calendar.
DaysInMonth(y, m) ==
    IF m = 2
    THEN IF (y % 4 = 0 /\ y % 100 # 0) \/ y % 400 = 0 THEN 29 ELSE 28
    ELSE IF m \in {4, 6, 9, 11} THEN 30 ELSE 31

\* datetime.strptime(s, '%Y-%m-%d') succeeds on the string y-m-d.
IsDate(dt) ==
    /\ dt.y \in 1..9999
    /\ dt.m \in 1..12
    /\ dt.d \in 1..DaysInMonth(dt.y, dt.m)

\* current_date.replace(day=1) moved to the first day of the next month.
NextMonthStart(dt) ==
    IF dt.m = 12 THEN Date(dt.y + 1, 1, 1) ELSE Date(dt.y, dt.m + 1, 1)

(***************************************************************************)
(* Time slots and zones.                                                   *)
(***************************************************************************)
Slot(h1, m1, h2, m2) == <<h1, m1, h2, m2>>

FirstSlotHour == 7
EndSlotHour == 20

RECURSIVE SlotsFrom(_)
SlotsFrom(hour) ==
    IF hour >= EndSlotHour THEN <<>>
    ELSE <<Slot(hour, 0, hour, 30), Slot(hour, 30, hour + 1, 0)>>
         \o SlotsFrom(hour + 1)

\* generate_time_slots(): 07:00-07:30, 07:30-08:00, ..., 19:30-20:00.
generate_time_slots == SlotsFrom(FirstSlotHour)

\* int(time_slot.split('-')[0].split(':')[0])
StartHour(time_slot) == time_slot[1]

\* Faulty variant of get_zone_for_time_slot: the weekend flag is looked at
\* after the hour ranges.
get_zone_for_time_slot_HourFirst(time_slot, is_weekend) ==
    LET hour == StartHour(time_slot)
    IN  IF 7 <= hour /\ hour < 10 THEN "A"
        ELSE IF 10 <= hour /\ hour < 12 THEN "B"
        ELSE IF 12 <= hour /\ hour < 16 THEN "C"
        ELSE IF 16 <= hour /\ hour < 18 THEN "B"
        ELSE "D"

get_zone_for_time_slot(time_slot, is_weekend) ==
    LET hour == StartHour(time_slot)
    IN  IF is_weekend THEN "D"
        ELSE IF 7 <= hour /\ hour < 10 THEN "A"
        ELSE IF 10 <= hour /\ hour < 12 THEN "B"
        ELSE IF 12 <= hour /\ hour < 16 THEN "C"
        ELSE IF 16 <= hour /\ hour < 18 THEN "B"
        ELSE "D"

\* int(zp.duration.replace('s', '')) on the duration strings of the catalog.
DurationSeconds(duration) ==
    CASE duration = "15s" -> 15
      [] duration = "30s" -> 30
      [] duration = "60s" -> 60

(***************************************************************************)
(* Queries.                                                                *)
(***************************************************************************)
\* .first(): the first matching row in primary-key order (0: None).
FirstIndex(S) == IF S = {} THEN 0 ELSE CHOOSE i \in S : \A j \in S : i <= j

StationExists(station_id) == \E s \in stations : s.id = station_id

StationGroup(station_id) ==
    (CHOOSE s \in stations : s.id = station_id).group_id

\* StationRating.affinity
Affinity(grp, trp) ==
    IF grp > 0 THEN [n |-> trp, d |-> grp] ELSE [n |-> 0, d |-> 1]

Zero == [n |-> 0, d |-> 1]

\* StationRating.query.filter_by(station_id, time_slot, target_audience,
\*                               is_weekend, is_active=True).first()
ActiveRating(station_id, time_slot, audience, is_weekend) ==
    FirstIndex({ix \in 1..Len(ratings) : LET r == ratings[ix] IN
        /\ r.station_id = station_id
        /\ r.time_slot = time_slot
        /\ r.target_audience = audience
        /\ r.is_weekend = is_weekend
        /\ r.is_active})

\* Faulty variant of BestZonePrice: a row of exactly the clip's duration is
\* passed over.
BestZonePrice_Strict(station_id, time_slot, is_weekend, clip_duration) ==
    LET zone == get_zone_for_time_slot(time_slot, is_weekend)
        ok   == {ix \in 1..Len(zone_prices) : LET zp == zone_prices[ix] IN
                    /\ zp.station_id = station_id
                    /\ zp.zone = zone
                    /\ zp.is_weekend = is_weekend
                    /\ DurationSeconds(zp.duration) > clip_duration}
    IN  FirstIndex({i \in ok : \A j \in ok :
                       DurationSeconds(zone_prices[i].duration)
                           <= DurationSeconds(zone_prices[j].duration)})

\* The zone/duration match: the first row, in query order, of the smallest
\* duration that is >= the clip duration (0: None).
BestZonePrice(station_id, time_slot, is_weekend, clip_duration) ==
    LET zone == get_zone_for_time_slot(time_slot, is_weekend)
        rows == {ix \in 1..Len(zone_prices) : LET zp == zone_prices[ix] IN
                    /\ zp.station_id = station_id
                    /\ zp.zone = zone
                    /\ zp.is_weekend = is_weekend}
        ok   == {i \in rows :
                    DurationSeconds(zone_prices[i].duration) >= clip_duration}
        best == {i \in ok : \A j \in ok :
                    DurationSeconds(zone_prices[i].duration)
                        <= DurationSeconds(zone_prices[j].duration)}
    IN  FirstIndex(best)

(***************************************************************************)
(* The external seasonal-adjustments service.  A response is its HTTP      *)
(* status and the document's index-value inputs in order; a request that   *)
(* raises (timeout, connection error) is status 0.                         *)
(***************************************************************************)
ExtDown == [status |-> 0, inputs |-> <<>>]
ExtFull == [status |-> 200,
            inputs |-> <<11, 9, 10, 10, 10, 10, 10, 10, 10, 10, 10, 12>>]
\* An answer other than 200, and answers 200 whose document has too few
\* index-value inputs, or none.
ExtError == [status |-> 503,
             inputs |-> <<11, 9, 10, 10, 10, 10, 10, 10, 10, 10, 10, 12>>]
ExtShort == [status |-> 200, inputs |-> <<11>>]
ExtEmpty == [status |-> 200, inputs |-> <<>>]
ExtResponses == {ExtDown, ExtFull, ExtError, ExtShort, ExtEmpty}

get_live_seasonal_index(response, month) ==
    IF response.status = 200
       /\ Len(response.inputs) > 0
       /\ 1 <= month /\ month <= Len(response.inputs)
    THEN response.inputs[month]
    ELSE 10

(***************************************************************************)
(* Snapshot capture.                                                       *)
(***************************************************************************)
RECURSIVE MonthsFrom(_, _)
MonthsFrom(current_date, end_date) ==
    IF DateLE(current_date, end_date)
    THEN <<current_date.m>> \o MonthsFrom(NextMonthStart(current_date), end_date)
    ELSE <<>>

\* months_in_plan of capture_station_data_for_plan
MonthsInPlan(start_date, end_date) ==
    MonthsFrom(Date(start_date.y, start_date.m, 1), end_date)

\* The clip duration capture and update_spot_count use.
FirstClipDuration(clips) ==
    IF Len(clips) > 0 /\ clips[1] # 0 THEN clips[1] ELSE 30

\* Faulty variant of CapturedRow: without a zone price the base price falls
\* back to the active flat price of the time slot.
CapturedRow_FlatFallback(plan_id, plan, station_id, month, time_slot, is_weekend, response) ==
    LET r  == ActiveRating(station_id, time_slot, plan.target_audience, is_weekend)
        zp == BestZonePrice(station_id, time_slot, is_weekend,
                            IF Len(plan.clips) > 0 THEN plan.clips[1] ELSE 30)
    IN  [plan_id        |-> plan_id,
         station_id     |-> station_id,
         time_slot      |-> time_slot,
         is_weekend     |-> is_weekend,
         month          |-> month,
         grp            |-> IF r # 0 THEN ratings[r].grp ELSE 0,
         trp            |-> IF r # 0 THEN ratings[r].trp ELSE 0,
         affinity       |-> IF r # 0 THEN Affinity(ratings[r].grp, ratings[r].trp)
                                     ELSE Zero,
         base_price     |-> IF zp # 0 THEN zone_prices[zp].price
                            ELSE LET fp == FirstIndex({ix \in 1..Len(prices) :
                                               LET sp == prices[ix] IN
                                                  /\ sp.station_id = station_id
                                                  /\ sp.time_slot = time_slot
                                                  /\ sp.is_weekend = is_weekend
                                                  /\ sp.is_active})
                                 IN  IF fp # 0 THEN prices[fp].price ELSE 0,
         seasonal_index |-> get_live_seasonal_index(response, month)]

\* One PlanStationData row.
CapturedRow(plan_id, plan, station_id, month, time_slot, is_weekend, response) ==
    LET r  == ActiveRating(station_id, time_slot, plan.target_audience, is_weekend)
        zp == BestZonePrice(station_id, time_slot, is_weekend,
                            IF Len(plan.clips) > 0 THEN plan.clips[1] ELSE 30)
    IN  [plan_id        |-> plan_id,
         station_id     |-> station_id,
         time_slot      |-> time_slot,
         is_weekend     |-> is_weekend,
         month          |-> month,
         grp            |-> IF r # 0 THEN ratings[r].grp ELSE 0,
         trp            |-> IF r # 0 THEN ratings[r].trp ELSE 0,
         affinity       |-> IF r # 0 THEN Affinity(ratings[r].grp, ratings[r].trp)
                                     ELSE Zero,
         base_price     |-> IF zp # 0 THEN zone_prices[zp].price ELSE 0,
         seasonal_index |-> get_live_seasonal_index(response, month)]

\* capture_station_data_for_plan: station x month x time slot x weekend flag,
\* in the order of the loops.
capture_station_data_for_plan(plan_id, plan, response) ==
    LET months == MonthsInPlan(plan.start_date, plan.end_date)
        slots  == generate_time_slots
        nM     == Len(months)
        nT     == Len(slots)
        n      == Len(plan.selected_stations) * nM * nT * 2
    IN  [k \in 1..n |->
            LET q == k - 1
            IN  CapturedRow(plan_id, plan,
                    plan.selected_stations[(q \div (nM * nT * 2)) + 1],
                    months[((q \div (nT * 2)) % nM) + 1],
                    slots[((q \div 2) % nT) + 1],
                    q % 2 = 1,
                    response)]

(***************************************************************************)
(* Spot metrics.                                                           *)
(***************************************************************************)
\* Faulty variant of FinalPrice: the two discounts are added and applied once.
FinalPriceAdditive(base_price, seasonal_index, our_discount, client_discount) ==
    ((base_price * seasonal_index) * (100 - (our_discount + client_discount))) * 100

\* price_after_our = base_price * seasonal_index * (1 - our_discount / 100)
\* final_price = price_after_our * (1 - client_discount / 100)
FinalPrice(base_price, seasonal_index, our_discount, client_discount) ==
    ((base_price * seasonal_index) * (100 - our_discount)) * (100 - client_discount)

\* RadioSpot rows of a natural key.
SpotKeyMatch(plan_id, station_id, time_slot, date, is_weekend_row) ==
    {ix \in 1..Len(spots) : LET sp == spots[ix] IN
        /\ sp.plan_id = plan_id
        /\ sp.station_id = station_id
        /\ sp.time_slot = time_slot
        /\ sp.date = date
        /\ sp.is_weekend_row = is_weekend_row}

\* PlanStationData.query.filter_by(plan_id, station_id, time_slot,
\*                                 is_weekend).first() of update_spot_count
CapturedFor(plan_id, station_id, time_slot, is_weekend) ==
    FirstIndex({ix \in 1..Len(captured) : LET cd == captured[ix] IN
        /\ cd.plan_id = plan_id
        /\ cd.station_id = station_id
        /\ cd.time_slot = time_slot
        /\ cd.is_weekend = is_weekend})

\* Faulty variant of NewSpotFromCaptured: a spot deleted by the request just
\* before is brought back with the fields it held, only its count is new.
NewSpotResurrected(plan_id, station_id, time_slot, date, new_count, is_weekend_row) ==
    IF /\ last.op = "update_spot_count"
       /\ last.path = "delete"
       /\ last.plan_id = plan_id
       /\ last.station_id = station_id
       /\ last.time_slot = time_slot
       /\ last.date = date
       /\ last.is_weekend_row = is_weekend_row
    THEN [last.stale EXCEPT !.spot_count = new_count]
    ELSE LET plan == plans[plan_id]
             cd   == CapturedFor(plan_id, station_id, time_slot, IsWeekendDate(date))
         IN  [plan_id |-> plan_id, station_id |-> station_id, date |-> date,
              time_slot |-> time_slot, is_weekend_row |-> is_weekend_row,
              spot_count |-> new_count,
              clip_duration |-> FirstClipDuration(plan.clips),
              grp            |-> IF cd # 0 THEN captured[cd].grp * new_count ELSE 0,
              trp            |-> IF cd # 0 THEN captured[cd].trp * new_count ELSE 0,
              affinity       |-> IF cd # 0 THEN captured[cd].affinity ELSE Zero,
              base_price     |-> IF cd # 0 THEN captured[cd].base_price ELSE 0,
              seasonal_index |-> IF cd # 0 THEN captured[cd].seasonal_index ELSE 10,
              final_price    |-> IF cd # 0
                                 THEN FinalPrice(captured[cd].base_price,
                                                 captured[cd].seasonal_index,
                                                 plan.our_discount,
                                                 plan.client_discount)
                                 ELSE 0,
              price_per_trp  |-> IF cd # 0 /\ captured[cd].trp * new_count > 0
                                 THEN [n |-> captured[cd].base_price,
                                       d |-> captured[cd].trp * new_count]
                                 ELSE Zero]

\* The spot update_spot_count creates.
NewSpotFromCaptured(plan_id, station_id, time_slot, date, new_count, is_weekend_row) ==
    LET plan == plans[plan_id]
        cd   == CapturedFor(plan_id, station_id, time_slot, IsWeekendDate(date))
        key  == [plan_id |-> plan_id, station_id |-> station_id, date |-> date,
                 time_slot |-> time_slot, is_weekend_row |-> is_weekend_row,
                 spot_count |-> new_count,
                 clip_duration |-> FirstClipDuration(plan.clips)]
    IN  IF cd # 0
        THEN key @@
             [grp            |-> captured[cd].grp * new_count,
              trp            |-> captured[cd].trp * new_count,
              affinity       |-> captured[cd].affinity,
              base_price     |-> captured[cd].base_price,
              seasonal_index |-> captured[cd].seasonal_index,
              final_price    |-> FinalPrice(captured[cd].base_price,
                                            captured[cd].seasonal_index,
                                            plan.our_discount, plan.client_discount),
              price_per_trp  |-> IF captured[cd].trp * new_count > 0
                                 THEN [n |-> captured[cd].base_price,
                                       d |-> captured[cd].trp * new_count]
                                 ELSE Zero]
        ELSE key @@
             [grp |-> 0, trp |-> 0, affinity |-> Zero, base_price |-> 0,
              seasonal_index |-> 10, final_price |-> 0, price_per_trp |-> Zero]

\* station.get_current_price(time_slot, is_weekend)
get_current_price(station_id, time_slot, is_weekend) ==
    LET p == FirstIndex({ix \in 1..Len(prices) : LET sp == prices[ix] IN
                 /\ sp.station_id = station_id
                 /\ sp.time_slot = time_slot
                 /\ sp.is_weekend = is_weekend
                 /\ sp.is_active})
    IN  IF p # 0 THEN prices[p].price ELSE 0

\* The stored seasonal index calculate_price reads: the group's row for the
\* month, else the global row, else the column default.
StoredSeasonalIndex(group_id, month) ==
    LET g == FirstIndex({ix \in 1..Len(seasonal) : LET si == seasonal[ix] IN
                 si.month = month /\ si.group_id = group_id /\ si.is_active})
        a == FirstIndex({ix \in 1..Len(seasonal) : LET si == seasonal[ix] IN
                 si.month = month /\ si.group_id = NoGroup /\ si.is_active})
    IN  IF g # 0 THEN seasonal[g].index_value
        ELSE IF a # 0 THEN seasonal[a].index_value
        ELSE 10

\* The spot add_spot creates: calculate_spot_metrics, then calculate_price.
NewSpotLive(plan_id, station_id, date, time_slot, spot_count, clip_duration) ==
    LET plan == plans[plan_id]
        we   == IsWeekendDate(date)
        r    == ActiveRating(station_id, time_slot, plan.target_audience, we)
        grp  == IF r # 0 THEN ratings[r].grp * spot_count ELSE 0
        trp  == IF r # 0 THEN ratings[r].trp * spot_count ELSE 0
        bp   == get_current_price(station_id, time_slot, we)
        si   == StoredSeasonalIndex(StationGroup(station_id), date.m)
    IN  [plan_id |-> plan_id, station_id |-> station_id, date |-> date,
         time_slot |-> time_slot, is_weekend_row |-> FALSE,
         spot_count |-> spot_count, clip_duration |-> clip_duration,
         grp |-> grp, trp |-> trp,
         affinity |-> IF r # 0 THEN Affinity(ratings[r].grp, ratings[r].trp) ELSE Zero,
         base_price |-> bp, seasonal_index |-> si,
         final_price |-> FinalPrice(bp, si, plan.our_discount, plan.client_discount),
         price_per_trp |-> IF trp > 0 THEN [n |-> bp, d |-> trp * 100] ELSE Zero]

RemoveAt(seq, i) == [k \in 1..(Len(seq) - 1) |-> IF k < i THEN seq[k] ELSE seq[k + 1]]

NoRow == [plan_id |-> 0]

(***************************************************************************)
(* Requests.  Every handler is one action; last records the request and    *)
(* the status of its response.                                             *)
(***************************************************************************)
S0700 == Slot(7, 0, 7, 30)

PlanExists(plan_id) == plan_id \in 1..Len(plans)

\* data.get(key, default) of a request body.
Get(data, key, default) == IF key \in DOMAIN data THEN data[key] ELSE default

\* The fields create_plan requires of its request body.
RequiredFields == {"campaign_id", "start_date", "end_date"}

\* Where create_plan raises after the plan row was added and flushed:
\* "stations" and "clips" in their loops (an entry without its 'name' key, a
\* clip without duration refused at the flush), "capture" at a read or write
\* inside capture_station_data_for_plan, "none" nowhere.
Faults == {"none", "stations", "clips", "capture"}

\* The RadioPlan row with the relationships the handler has added to the
\* session when it raises at fault, or reaches its commit.
PlanInSession(data, fault) ==
    [start_date        |-> data.start_date,
     end_date          |-> data.end_date,
     target_audience   |-> Get(data, "target_audience", "All"),
     our_discount      |-> Get(data, "our_discount", 0),
     client_discount   |-> Get(data, "client_discount", 0),
     selected_stations |-> IF fault = "stations" THEN <<>>
                           ELSE SelectSeq(Get(data, "stations", <<>>), StationExists),
     clips             |-> IF fault \in {"stations", "clips"} THEN <<>>
                           ELSE Get(data, "clips", <<>>)]

\* The PlanStationData rows capture has added to the session by then.
CapturedInSession(plan_id, data, response, fault) ==
    LET rows == capture_station_data_for_plan(plan_id, PlanInSession(data, "none"),
                                              response)
    IN  IF fault = "none" THEN rows
        ELSE IF fault = "capture" THEN SubSeq(rows, 1, Len(rows) \div 2)
        ELSE <<>>

\* Faulty variant of create_plan: the plan, its stations and clips are
\* committed before capture, so a failure inside capture rolls back the
\* captured rows only.
create_plan_EarlyCommit(data, response, fault) ==
    /\ Len(plans) < MaxPlans
    /\ IF \E f \in RequiredFields : f \notin DOMAIN data
       THEN /\ last' = [op |-> "create_plan", status |-> 400, fault |-> "field",
                        data |-> data]
            /\ UNCHANGED <<plans, captured>>
       ELSE IF ~IsDate(data.start_date) \/ ~IsDate(data.end_date)
       THEN /\ last' = [op |-> "create_plan", status |-> 500, fault |-> "date",
                        data |-> data]
            /\ UNCHANGED <<plans, captured>>
       ELSE IF fault \in {"stations", "clips"}
       THEN /\ last' = [op |-> "create_plan", status |-> 500, fault |-> fault]
            /\ UNCHANGED <<plans, captured>>
       ELSE IF fault = "capture"
       THEN /\ plans' = Append(plans, PlanInSession(data, "none"))
            /\ last' = [op |-> "create_plan", status |-> 500, fault |-> fault]
            /\ UNCHANGED captured
       ELSE /\ plans' = Append(plans, PlanInSession(data, fault))
            /\ captured' = captured
                             \o CapturedInSession(Len(plans) + 1, data, response, fault)
            /\ last' = [op |-> "create_plan", status |-> 201, fault |-> fault,
                        plan_id |-> Len(plans) + 1, response |-> response,
                        stations |-> Get(data, "stations", <<>>)]
    /\ UNCHANGED <<catalog, spots>>

\* Faulty variant of create_plan: an answer of the seasonal service other
\* than 200 is raised as an error of the request.
create_plan_StrictService(data, response, fault) ==
    /\ Len(plans) < MaxPlans
    /\ IF \E f \in RequiredFields : f \notin DOMAIN data
       THEN /\ last' = [op |-> "create_plan", status |-> 400, fault |-> "field",
                        data |-> data]
            /\ UNCHANGED <<plans, captured>>
       ELSE IF ~IsDate(data.start_date) \/ ~IsDate(data.end_date)
       THEN /\ last' = [op |-> "create_plan", status |-> 500, fault |-> "date",
                        data |-> data]
            /\ UNCHANGED <<plans, captured>>
       ELSE IF fault # "none"
       THEN /\ last' = [op |-> "create_plan", status |-> 500, fault |-> fault]
            /\ UNCHANGED <<plans, captured>>
       ELSE IF response.status # 200
       THEN /\ last' = [op |-> "create_plan", status |-> 500, fault |-> fault,
                        response |-> response]
            /\ UNCHANGED <<plans, captured>>
       ELSE /\ plans' = Append(plans, PlanInSession(data, fault))
            /\ captured' = captured
                             \o CapturedInSession(Len(plans) + 1, data, response, fault)
            /\ last' = [op |-> "create_plan", status |-> 201, fault |-> fault,
                        plan_id |-> Len(plans) + 1, response |-> response,
                        stations |-> Get(data, "stations", <<>>)]
    /\ UNCHANGED <<catalog, spots>>

\* POST /plans.  data is the request body.  The handler adds the plan, its
\* stations, its clips and the captured rows to one session and commits
\* once, at its end; any exception rolls the session back and answers 500.
create_plan(data, response, fault) ==
    /\ Len(plans) < MaxPlans
    /\ IF \E f \in RequiredFields : f \notin DOMAIN data
       THEN /\ last' = [op |-> "create_plan", status |-> 400, fault |-> "field",
                        data |-> data]
            /\ UNCHANGED <<plans, captured>>
       ELSE IF ~IsDate(data.start_date) \/ ~IsDate(data.end_date)
       THEN /\ last' = [op |-> "create_plan", status |-> 500, fault |-> "date",
                        data |-> data]
            /\ UNCHANGED <<plans, captured>>
       ELSE IF fault # "none"
       THEN /\ last' = [op |-> "create_plan", status |-> 500, fault |-> fault]
            /\ UNCHANGED <<plans, captured>>
       ELSE /\ plans' = Append(plans, PlanInSession(data, fault))
            /\ captured' = captured
                             \o CapturedInSession(Len(plans) + 1, data, response, fault)
            /\ last' = [op |-> "create_plan", status |-> 201, fault |-> fault,
                        plan_id |-> Len(plans) + 1, response |-> response,
                        stations |-> Get(data, "stations", <<>>)]
    /\ UNCHANGED <<catalog, spots>>

\* POST /plans/<plan_id>/spots
add_spot(plan_id, station_id, date, time_slot, spot_count, clip_duration) ==
    IF ~PlanExists(plan_id)
    THEN /\ last' = [op |-> "add_spot", status |-> 404]
         /\ UNCHANGED <<catalog, plans, captured, spots>>
    ELSE IF ~StationExists(station_id)
    THEN /\ last' = [op |-> "add_spot", status |-> 500]
         /\ UNCHANGED <<catalog, plans, captured, spots>>
    ELSE /\ Len(spots) < MaxSpots
         /\ spots' = Append(spots, NewSpotLive(plan_id, station_id, date, time_slot,
                                               spot_count, clip_duration))
         /\ last' = [op |-> "add_spot", status |-> 201, spot |-> Len(spots) + 1,
                     spot_count |-> spot_count]
         /\ UNCHANGED <<catalog, plans, captured>>

\* History: the last request deleted the spot of this request's natural key.
JustDeleted(req) ==
    /\ last.op = "update_spot_count"
    /\ last.path = "delete"
    /\ last.plan_id = req.plan_id
    /\ last.station_id = req.station_id
    /\ last.time_slot = req.time_slot
    /\ last.date = req.date
    /\ last.is_weekend_row = req.is_weekend_row

\* Faulty variant of update_spot_count: the update writes the new count to
\* every spot of the plan, station and time slot, whatever its date.
update_spot_count_AnyDate(plan_id, station_id, time_slot, date, new_count, is_weekend_row) ==
    LET s == FirstIndex(SpotKeyMatch(plan_id, station_id, time_slot, date,
                                     is_weekend_row))
        req == [op |-> "update_spot_count", plan_id |-> plan_id,
                station_id |-> station_id, time_slot |-> time_slot, date |-> date,
                new_count |-> new_count, is_weekend_row |-> is_weekend_row]
    IN  IF ~PlanExists(plan_id)
        THEN /\ last' = req @@ [status |-> 500, path |-> "error"]
             /\ UNCHANGED <<catalog, plans, captured, spots>>
        ELSE IF station_id = 0 \/ time_slot = <<>>
        THEN /\ last' = req @@ [status |-> 400, path |-> "error"]
             /\ UNCHANGED <<catalog, plans, captured, spots>>
        ELSE IF ~StationExists(station_id)
        THEN /\ last' = req @@ [status |-> 404, path |-> "error"]
             /\ UNCHANGED <<catalog, plans, captured, spots>>
        ELSE IF ~IsDate(date)
        THEN /\ last' = req @@ [status |-> 500, path |-> "error"]
             /\ UNCHANGED <<catalog, plans, captured, spots>>
        ELSE IF new_count <= 0
        THEN /\ spots' = IF s # 0 THEN RemoveAt(spots, s) ELSE spots
             /\ last' = req @@ [status |-> 200,
                                path |-> IF s # 0 THEN "delete" ELSE "none",
                                stale |-> IF s # 0 THEN spots[s] ELSE NoRow]
             /\ UNCHANGED <<catalog, plans, captured>>
        ELSE IF s # 0
        THEN /\ spots' = [i \in 1..Len(spots) |->
                            IF /\ spots[i].plan_id = plan_id
                               /\ spots[i].station_id = station_id
                               /\ spots[i].time_slot = time_slot
                            THEN [spots[i] EXCEPT !.spot_count = new_count]
                            ELSE spots[i]]
             /\ last' = req @@ [status |-> 200, path |-> "update", spot |-> s,
                                old_count |-> spots[s].spot_count]
             /\ UNCHANGED <<catalog, plans, captured>>
        ELSE /\ Len(spots) < MaxSpots
             /\ spots' = Append(spots, NewSpotFromCaptured(plan_id, station_id,
                                    time_slot, date, new_count, is_weekend_row))
             /\ last' = req @@ [status |-> 200, path |-> "create",
                                spot |-> Len(spots) + 1,
                                stale |-> IF JustDeleted(req) THEN last.stale
                                                              ELSE NoRow]
             /\ UNCHANGED <<catalog, plans, captured>>

\* PUT /plans/<plan_id>/spots/update-count.  A station_id or time_slot that
\* is absent or falsy (0, the empty string) is a missing field; the date is
\* parsed after the station was looked up, inside the handler's try.
update_spot_count(plan_id, station_id, time_slot, date, new_count, is_weekend_row) ==
    LET s == FirstIndex(SpotKeyMatch(plan_id, station_id, time_slot, date,
                                     is_weekend_row))
        req == [op |-> "update_spot_count", plan_id |-> plan_id,
                station_id |-> station_id, time_slot |-> time_slot, date |-> date,
                new_count |-> new_count, is_weekend_row |-> is_weekend_row]
    IN  IF ~PlanExists(plan_id)
        THEN /\ last' = req @@ [status |-> 500, path |-> "error"]
             /\ UNCHANGED <<catalog, plans, captured, spots>>
        ELSE IF station_id = 0 \/ time_slot = <<>>
        THEN /\ last' = req @@ [status |-> 400, path |-> "error"]
             /\ UNCHANGED <<catalog, plans, captured, spots>>
        ELSE IF ~StationExists(station_id)
        THEN /\ last' = req @@ [status |-> 404, path |-> "error"]
             /\ UNCHANGED <<catalog, plans, captured, spots>>
        ELSE IF ~IsDate(date)
        THEN /\ last' = req @@ [status |-> 500, path |-> "error"]
             /\ UNCHANGED <<catalog, plans, captured, spots>>
        ELSE IF new_count <= 0
        THEN /\ spots' = IF s # 0 THEN RemoveAt(spots, s) ELSE spots
             /\ last' = req @@ [status |-> 200,
                                path |-> IF s # 0 THEN "delete" ELSE "none",
                                stale |-> IF s # 0 THEN spots[s] ELSE NoRow]
             /\ UNCHANGED <<catalog, plans, captured>>
        ELSE IF s # 0
        THEN /\ spots' = [spots EXCEPT ![s].spot_count = new_count]
             /\ last' = req @@ [status |-> 200, path |-> "update", spot |-> s,
                                old_count |-> spots[s].spot_count]
             /\ UNCHANGED <<catalog, plans, captured>>
        ELSE /\ Len(spots) < MaxSpots
             /\ spots' = Append(spots, NewSpotFromCaptured(plan_id, station_id,
                                    time_slot, date, new_count, is_weekend_row))
             /\ last' = req @@ [status |-> 200, path |-> "create",
                                spot |-> Len(spots) + 1,
                                stale |-> IF JustDeleted(req) THEN last.stale
                                                              ELSE NoRow]
             /\ UNCHANGED <<catalog, plans, captured>>

\* Faulty variant of update_seasonal_index: the new value is also written
\* into the captured rows of the index's month.
update_seasonal_index_Propagating(index_id, index_value) ==
    IF index_id \notin 1..Len(seasonal)
    THEN /\ last' = [op |-> "update_seasonal_index", status |-> 404]
         /\ UNCHANGED <<catalog, plans, captured, spots>>
    ELSE /\ seasonal' = [seasonal EXCEPT ![index_id].index_value = index_value]
         /\ captured' = [i \in 1..Len(captured) |->
                            IF captured[i].month = seasonal[index_id].month
                            THEN [captured[i] EXCEPT !.seasonal_index = index_value]
                            ELSE captured[i]]
         /\ last' = [op |-> "update_seasonal_index", status |-> 200]
         /\ UNCHANGED <<stations, ratings, prices, zone_prices, plans, spots>>

\* PUT /seasonal-indices/<index_id>
update_seasonal_index(index_id, index_value) ==
    IF index_id \notin 1..Len(seasonal)
    THEN /\ last' = [op |-> "update_seasonal_index", status |-> 404]
         /\ UNCHANGED <<catalog, plans, captured, spots>>
    ELSE /\ seasonal' = [seasonal EXCEPT ![index_id].index_value = index_value]
         /\ last' = [op |-> "update_seasonal_index", status |-> 200]
         /\ UNCHANGED <<stations, ratings, prices, zone_prices, plans, captured,
                        spots>>

\* PUT /stations/<station_id>/prices
update_station_zone_price(station_id, zone, duration, price, is_weekend) ==
    LET zp == FirstIndex({ix \in 1..Len(zone_prices) : LET r == zone_prices[ix] IN
                  /\ r.station_id = station_id
                  /\ r.zone = zone
                  /\ r.duration = duration
                  /\ r.is_weekend = is_weekend})
    IN  IF ~StationExists(station_id)
        THEN /\ last' = [op |-> "update_station_zone_price", status |-> 500]
             /\ UNCHANGED <<catalog, plans, captured, spots>>
        ELSE /\ zone_prices' =
                    IF zp # 0
                    THEN [zone_prices EXCEPT ![zp].price = price]
                    ELSE Append(zone_prices,
                                [station_id |-> station_id, zone |-> zone,
                                 duration |-> duration, price |-> price,
                                 is_weekend |-> is_weekend])
             /\ last' = [op |-> "update_station_zone_price", status |-> 200]
             /\ UNCHANGED <<stations, ratings, prices, seasonal, plans, captured,
                            spots>>

\* PUT /stations/<station_id>/time-slot-prices
update_station_time_slot_price(station_id, time_slot, is_weekend, price) ==
    LET sp == FirstIndex({ix \in 1..Len(prices) : LET r == prices[ix] IN
                  /\ r.station_id = station_id
                  /\ r.time_slot = time_slot
                  /\ r.is_weekend = is_weekend})
    IN  IF ~StationExists(station_id)
        THEN /\ last' = [op |-> "update_station_time_slot_price", status |-> 500]
             /\ UNCHANGED <<catalog, plans, captured, spots>>
        ELSE /\ prices' =
                    IF sp # 0
                    THEN [prices EXCEPT ![sp].price = price, ![sp].is_active = TRUE]
                    ELSE Append(prices,
                                [station_id |-> station_id, time_slot |-> time_slot,
                                 price |-> price, is_weekend |-> is_weekend,
                                 is_active |-> TRUE])
             /\ last' = [op |-> "update_station_time_slot_price", status |-> 200]
             /\ UNCHANGED <<stations, ratings, zone_prices, seasonal, plans,
                            captured, spots>>

\* Faulty variant of update_station_rating: the new grp and trp are also
\* written into the captured rows of the station's time slot.
update_station_rating_Propagating(station_id, time_slot, is_weekend, grp, trp) ==
    LET r == FirstIndex({ix \in 1..Len(ratings) : LET x == ratings[ix] IN
                 /\ x.station_id = station_id
                 /\ x.time_slot = time_slot
                 /\ x.is_weekend = is_weekend})
    IN  IF ~StationExists(station_id) \/ r = 0
        THEN /\ last' = [op |-> "update_station_rating", status |-> 500]
             /\ UNCHANGED <<catalog, plans, captured, spots>>
        ELSE /\ ratings' = [ratings EXCEPT ![r].grp = grp, ![r].trp = trp,
                                           ![r].is_active = TRUE]
             /\ captured' = [i \in 1..Len(captured) |->
                                IF /\ captured[i].station_id = station_id
                                   /\ captured[i].time_slot = time_slot
                                   /\ captured[i].is_weekend = is_weekend
                                THEN [captured[i] EXCEPT !.grp = grp, !.trp = trp]
                                ELSE captured[i]]
             /\ last' = [op |-> "update_station_rating", status |-> 200]
             /\ UNCHANGED <<stations, prices, zone_prices, seasonal, plans, spots>>

\* PUT /stations/<station_id>/ratings.  A new rating is built without a
\* target_audience, which the column does not allow: the insert fails and
\* the handler rolls back.
update_station_rating(station_id, time_slot, is_weekend, grp, trp) ==
    LET r == FirstIndex({ix \in 1..Len(ratings) : LET x == ratings[ix] IN
                 /\ x.station_id = station_id
                 /\ x.time_slot = time_slot
                 /\ x.is_weekend = is_weekend})
    IN  IF ~StationExists(station_id) \/ r = 0
        THEN /\ last' = [op |-> "update_station_rating", status |-> 500]
             /\ UNCHANGED <<catalog, plans, captured, spots>>
        ELSE /\ ratings' = [ratings EXCEPT ![r].grp = grp, ![r].trp = trp,
                                           ![r].is_active = TRUE]
             /\ last' = [op |-> "update_station_rating", status |-> 200]
             /\ UNCHANGED <<stations, prices, zone_prices, seasonal, plans,
                            captured, spots>>

\* PUT /plans/<plan_id>/seasonal-index
update_plan_seasonal_index(plan_id, station_id, time_slot, is_weekend, new_seasonal_index) ==
    LET Hit(cd) == /\ cd.plan_id = plan_id
                   /\ cd.station_id = station_id
                   /\ cd.time_slot = time_slot
                   /\ cd.is_weekend = is_weekend
    IN  IF \A i \in 1..Len(captured) : ~Hit(captured[i])
        THEN /\ last' = [op |-> "update_plan_seasonal_index", status |-> 404]
             /\ UNCHANGED <<catalog, plans, captured, spots>>
        ELSE /\ captured' = [i \in 1..Len(captured) |->
                                IF Hit(captured[i])
                                THEN [captured[i] EXCEPT
                                         !.seasonal_index = new_seasonal_index]
                                ELSE captured[i]]
             /\ last' = [op |-> "update_plan_seasonal_index", status |-> 200]
             /\ UNCHANGED <<catalog, plans, spots>>

\* PUT /plans/<plan_id>/discounts.  A discount absent from the request
\* (None) is left as it is.
update_plan_discounts(plan_id, our_discount, client_discount) ==
    IF ~PlanExists(plan_id)
    THEN /\ last' = [op |-> "update_plan_discounts", status |-> 500,
                     plan_id |-> plan_id]
         /\ UNCHANGED <<catalog, plans, captured, spots>>
    ELSE /\ plans' = [plans EXCEPT
                ![plan_id].our_discount =
                    IF our_discount.given THEN our_discount.value ELSE @,
                ![plan_id].client_discount =
                    IF client_discount.given THEN client_discount.value ELSE @]
         /\ last' = [op |-> "update_plan_discounts", status |-> 200,
                     plan_id |-> plan_id]
         /\ UNCHANGED <<catalog, captured, spots>>

\* get_zone_for_time_slot, the function local to get_station_price_for_duration.
price_get_zone_for_time_slot(time_slot, is_weekend) ==
    LET hour == StartHour(time_slot)
    IN  IF is_weekend THEN "D"
        ELSE IF 7 <= hour /\ hour < 10 THEN "A"
        ELSE IF 10 <= hour /\ hour < 12 THEN "B"
        ELSE IF 12 <= hour /\ hour < 16 THEN "C"
        ELSE IF 16 <= hour /\ hour < 18 THEN "B"
        ELSE "D"

\* Faulty variant of best_zone_price: the first row, in query order, whose
\* duration is >= the requested one, without looking for the smallest.
first_zone_price(station_id, zone, is_weekend, clip_duration_int) ==
    FirstIndex({ix \in 1..Len(zone_prices) : LET zp == zone_prices[ix] IN
        /\ zp.station_id = station_id
        /\ zp.zone = zone
        /\ zp.is_weekend = is_weekend
        /\ DurationSeconds(zp.duration) >= clip_duration_int})

\* best_zone_price of get_station_price_for_duration: of the rows of the
\* station, zone and weekend flag, in query order, the first of the smallest
\* duration that is >= the requested one (0: None).
best_zone_price(station_id, zone, is_weekend, clip_duration_int) ==
    LET ok == {ix \in 1..Len(zone_prices) : LET zp == zone_prices[ix] IN
                  /\ zp.station_id = station_id
                  /\ zp.zone = zone
                  /\ zp.is_weekend = is_weekend
                  /\ DurationSeconds(zp.duration) >= clip_duration_int}
    IN  FirstIndex({i \in ok : \A j \in ok :
                       DurationSeconds(zone_prices[i].duration)
                           <= DurationSeconds(zone_prices[j].duration)})

\* GET /radio-stations/<station_id>/price?time_slot=&duration=&is_weekend=
\* An absent time_slot is the empty tuple.
get_station_price_for_duration(station_id, time_slot, duration, is_weekend) ==
    LET req  == [op |-> "get_station_price_for_duration", station_id |-> station_id,
                 time_slot |-> time_slot, duration |-> duration,
                 is_weekend |-> is_weekend]
        zone == price_get_zone_for_time_slot(time_slot, is_weekend)
        best == best_zone_price(station_id, zone, is_weekend, duration)
        sp   == FirstIndex({ix \in 1..Len(prices) : LET r == prices[ix] IN
                    /\ r.station_id = station_id
                    /\ r.time_slot = time_slot
                    /\ r.is_weekend = is_weekend
                    /\ r.is_active})
    IN  /\ last' =
              IF ~StationExists(station_id) THEN req @@ [status |-> 404]
              ELSE IF time_slot = <<>> THEN req @@ [status |-> 400]
              ELSE IF best # 0
              THEN req @@ [status |-> 200, price |-> zone_prices[best].price,
                           matched_duration |-> zone_prices[best].duration,
                           zone |-> zone, source |-> "zone_price"]
              ELSE IF sp # 0
              THEN req @@ [status |-> 200, price |-> prices[sp].price,
                           source |-> "station_price_fallback"]
              ELSE req @@ [status |-> 200, price |-> 0, source |-> "not_found"]
        /\ UNCHANGED <<catalog, plans, captured, spots>>

\* A call of get_zone_for_time_slot of utils.py and of the function of the
\* same name local to get_station_price_for_duration.
resolve_zone(time_slot, is_weekend) ==
    /\ last' = [op |-> "get_zone_for_time_slot", time_slot |-> time_slot,
                is_weekend |-> is_weekend,
                zone |-> get_zone_for_time_slot(time_slot, is_weekend),
                price_zone |-> price_get_zone_for_time_slot(time_slot, is_weekend)]
    /\ UNCHANGED <<catalog, plans, captured, spots>>

(***************************************************************************)
(* The calendar aggregation of a plan.                                     *)
(***************************************************************************)
\* current_date + timedelta(days=1)
NextDay(dt) ==
    IF dt.d < DaysInMonth(dt.y, dt.m) THEN Date(dt.y, dt.m, dt.d + 1)
    ELSE NextMonthStart(dt)

\* calendar['dates']: one entry per day while current_date <= end_date.
RECURSIVE CalendarDates(_, _)
CalendarDates(current_date, end_date) ==
    IF DateLE(current_date, end_date)
    THEN <<[date |-> current_date, weekday |-> Weekday(current_date),
            is_weekend |-> IsWeekendDate(current_date)]>>
         \o CalendarDates(NextDay(current_date), end_date)
    ELSE <<>>

RECURSIVE SumSeq(_)
SumSeq(seq) == IF seq = <<>> THEN 0 ELSE Head(seq) + SumSeq(Tail(seq))

\* plan.spots.filter_by(time_slot=slot).all()
PlanSpotsOfSlot(plan_id, slot) ==
    LET InSlot(sp) == sp.plan_id = plan_id /\ sp.time_slot = slot
    IN  SelectSeq(spots, InSlot)

\* calendar['time_slots'][slot] after the loop over the slot's spots.
SlotEntry(plan_id, slot) ==
    LET ss == PlanSpotsOfSlot(plan_id, slot)
        OnDate(d) == LET Of(sp) == sp.date = d IN SelectSeq(ss, Of)
    IN  [spots       |-> [d \in {ss[i].date : i \in 1..Len(ss)} |->
                             [i \in 1..Len(OnDate(d)) |->
                                 [station |-> OnDate(d)[i].station_id,
                                  count   |-> OnDate(d)[i].spot_count,
                                  grp     |-> OnDate(d)[i].grp,
                                  trp     |-> OnDate(d)[i].trp,
                                  price   |-> OnDate(d)[i].final_price]]],
         total_grp   |-> SumSeq([i \in 1..Len(ss) |-> ss[i].grp]),
         total_trp   |-> SumSeq([i \in 1..Len(ss) |-> ss[i].trp]),
         total_price |-> SumSeq([i \in 1..Len(ss) |-> ss[i].final_price]),
         count       |-> SumSeq([i \in 1..Len(ss) |-> ss[i].spot_count])]

\* generate_full_calendar(plan): the dates of the plan, the slots of
\* generate_time_slots() that hold a spot, and the totals accumulated while
\* those slots are walked.
generate_full_calendar(plan_id) ==
    LET slots == generate_time_slots
        entry == [i \in 1..Len(slots) |-> SlotEntry(plan_id, slots[i])]
        kept  == {i \in 1..Len(slots) : DOMAIN entry[i].spots # {}}
    IN  [dates      |-> CalendarDates(plans[plan_id].start_date,
                                      plans[plan_id].end_date),
         time_slots |-> [slot \in {slots[i] : i \in kept} |->
                            LET e == SlotEntry(plan_id, slot)
                            IN  [spots |-> e.spots, total_grp |-> e.total_grp,
                                 total_trp |-> e.total_trp,
                                 total_price |-> e.total_price]],
         totals     |-> [grp   |-> SumSeq([i \in 1..Len(slots) |-> entry[i].total_grp]),
                         trp   |-> SumSeq([i \in 1..Len(slots) |-> entry[i].total_trp]),
                         price |-> SumSeq([i \in 1..Len(slots) |-> entry[i].total_price]),
                         spots |-> SumSeq([i \in 1..Len(slots) |-> entry[i].count])]]

\* GET /planning/<plan_id>/calendar
plan_calendar(plan_id) ==
    /\ last' = IF ~PlanExists(plan_id)
               THEN [op |-> "plan_calendar", status |-> 404, plan_id |-> plan_id]
               ELSE [op |-> "plan_calendar", status |-> 200, plan_id |-> plan_id,
                     calendar |-> generate_full_calendar(plan_id)]
    /\ UNCHANGED <<catalog, plans, captured, spots>>

(***************************************************************************)
(* Station administration and the writers of flat prices.                  *)
(***************************************************************************)
\* StationPrice.query.filter_by(station_id, time_slot, is_weekend,
\*                              is_active=True).first()
ActivePrice(station_id, time_slot, is_weekend) ==
    FirstIndex({ix \in 1..Len(prices) : LET r == prices[ix] IN
        /\ r.station_id = station_id
        /\ r.time_slot = time_slot
        /\ r.is_weekend = is_weekend
        /\ r.is_active})

\* The prices table after the find-or-create of update_station_price and
\* update_station_data.
WithActivePrice(station_id, time_slot, is_weekend, new_price) ==
    LET price == ActivePrice(station_id, time_slot, is_weekend)
    IN  IF price # 0 THEN [prices EXCEPT ![price].price = new_price]
        ELSE Append(prices, [station_id |-> station_id, time_slot |-> time_slot,
                             price |-> new_price, is_weekend |-> is_weekend,
                             is_active |-> TRUE])

\* POST /stations/<station_id>/price/update
update_station_price(station_id, time_slot, is_weekend, new_price) ==
    IF ~StationExists(station_id)
    THEN /\ last' = [op |-> "update_station_price", status |-> 404]
         /\ UNCHANGED <<catalog, plans, captured, spots>>
    ELSE /\ prices' = WithActivePrice(station_id, time_slot, is_weekend, new_price)
         /\ last' = [op |-> "update_station_price", status |-> 302]
         /\ UNCHANGED <<stations, ratings, zone_prices, seasonal, plans, captured,
                        spots>>

\* POST /stations/<station_id>/data/update.  grp and trp are applied when
\* both are given (a non-empty form field); a rating that does not exist yet is built without a
\* target_audience, which the column does not allow: the commit fails and
\* nothing of the request is stored.
update_station_data(station_id, time_slot, is_weekend, new_price, grp, trp) ==
    LET rating == FirstIndex({ix \in 1..Len(ratings) : LET x == ratings[ix] IN
                      /\ x.station_id = station_id
                      /\ x.time_slot = time_slot
                      /\ x.is_weekend = is_weekend})
        both == grp.given /\ trp.given
    IN  IF ~StationExists(station_id)
        THEN /\ last' = [op |-> "update_station_data", status |-> 404]
             /\ UNCHANGED <<catalog, plans, captured, spots>>
        ELSE IF both /\ rating = 0
        THEN /\ last' = [op |-> "update_station_data", status |-> 500]
             /\ UNCHANGED <<catalog, plans, captured, spots>>
        ELSE /\ prices' = WithActivePrice(station_id, time_slot, is_weekend, new_price)
             /\ ratings' = IF both
                           THEN [ratings EXCEPT ![rating].grp = grp.value,
                                                ![rating].trp = trp.value]
                           ELSE ratings
             /\ last' = [op |-> "update_station_data", status |-> 302]
             /\ UNCHANGED <<stations, zone_prices, seasonal, plans, captured, spots>>

\* The id the database gives a new RadioStation row.
NewStationId ==
    IF stations = {} THEN 1
    ELSE (CHOOSE s \in stations : \A t \in stations : t.id <= s.id).id + 1

FirstDefaultHour == 7
EndDefaultHour == 19

\* The default price add_station gives a time slot, by its hour.
DefaultPrice(hour) ==
    IF 7 <= hour /\ hour < 9 THEN 120
    ELSE IF 9 <= hour /\ hour < 12 THEN 80
    ELSE IF 12 <= hour /\ hour < 14 THEN 100
    ELSE IF 14 <= hour /\ hour < 17 THEN 70
    ELSE 110

\* The weekend price, 20% cheaper: base_price * 0.8.
WeekendPrice(base_price) == (base_price * 8) \div 10

\* The default prices of a new station: for each slot from 07:00-07:30 to
\* 18:30-19:00 a weekday row, then a weekend row.
RECURSIVE DefaultPricesFrom(_, _)
DefaultPricesFrom(station_id, hour) ==
    IF hour >= EndDefaultHour THEN <<>>
    ELSE LET Pair(ts) ==
                 << [station_id |-> station_id, time_slot |-> ts,
                     price |-> DefaultPrice(hour), is_weekend |-> FALSE,
                     is_active |-> TRUE],
                    [station_id |-> station_id, time_slot |-> ts,
                     price |-> WeekendPrice(DefaultPrice(hour)), is_weekend |-> TRUE,
                     is_active |-> TRUE] >>
         IN  Pair(Slot(hour, 0, hour, 30)) \o Pair(Slot(hour, 30, hour + 1, 0))
             \o DefaultPricesFrom(station_id, hour + 1)

MaxStations == 3

\* POST /stations/add
add_station(station_name, group_id) ==
    IF \E s \in stations : s.name = station_name
    THEN /\ last' = [op |-> "add_station", status |-> 400]
         /\ UNCHANGED <<catalog, plans, captured, spots>>
    ELSE /\ Cardinality(stations) < MaxStations
         /\ stations' = stations \cup {[id |-> NewStationId, group_id |-> group_id,
                                        name |-> station_name]}
         /\ prices' = prices \o DefaultPricesFrom(NewStationId, FirstDefaultHour)
         /\ last' = [op |-> "add_station", status |-> 200, id |-> NewStationId]
         /\ UNCHANGED <<ratings, zone_prices, seasonal, plans, captured, spots>>

\* process_price_data over the rows of a sheet, from the tables st and pr:
\* the station of a row is found by name or created in the first group, and
\* a StationPrice row is added for every row of the sheet.
RECURSIVE process_price_data(_, _, _)
process_price_data(df, st, pr) ==
    IF df = <<>> THEN [stations |-> st, prices |-> pr]
    ELSE LET row == Head(df)
             known == {s \in st : s.name = row.Station}
             new_id == IF st = {} THEN 1
                       ELSE (CHOOSE s \in st : \A t \in st : t.id <= s.id).id + 1
             station_id == IF known # {}
                           THEN (CHOOSE s \in known : \A t \in known : s.id <= t.id).id
                           ELSE new_id
         IN  process_price_data(Tail(df),
                 IF known # {} THEN st
                 ELSE st \cup {[id |-> new_id, group_id |-> 1, name |-> row.Station]},
                 Append(pr, [station_id |-> station_id, time_slot |-> row.Time,
                             price |-> row.Price, is_weekend |-> row.Weekend,
                             is_active |-> TRUE]))

\* import_station_prices on a workbook of one sheet of the year: the rows are
\* processed and committed together.
import_station_prices(df) ==
    LET done == process_price_data(df, stations, prices)
    IN  /\ Cardinality(done.stations) <= MaxStations
        /\ stations' = done.stations
        /\ prices' = done.prices
        /\ last' = [op |-> "import_station_prices", status |-> 200]
        /\ UNCHANGED <<ratings, zone_prices, seasonal, plans, captured, spots>>

\* The rows that hold a station's id and are neither deleted by
\* delete_station nor by a cascade of the station's relationships: zone
\* prices, spots and captured rows.  At the flush the ORM sets their
\* station_id to NULL, which the NOT NULL columns refuse.
HasUncascadedRows(station_id) ==
    \/ \E i \in 1..Len(zone_prices) : zone_prices[i].station_id = station_id
    \/ \E i \in 1..Len(spots) : spots[i].station_id = station_id
    \/ \E i \in 1..Len(captured) : captured[i].station_id = station_id

\* POST /stations/<station_id>/delete.  The ratings and prices of the station
\* are deleted, then the station; its rows of plan_stations go with it.  An
\* IntegrityError at the commit is not caught: the request answers 500 and
\* its transaction is rolled back.
delete_station(station_id) ==
    LET NotOf(r) == r.station_id # station_id
        NotIt(id) == id # station_id
    IN  IF ~StationExists(station_id)
        THEN /\ last' = [op |-> "delete_station", status |-> 404,
                         station_id |-> station_id]
             /\ UNCHANGED <<catalog, plans, captured, spots>>
        ELSE IF HasUncascadedRows(station_id)
        THEN /\ last' = [op |-> "delete_station", status |-> 500,
                         station_id |-> station_id]
             /\ UNCHANGED <<catalog, plans, captured, spots>>
        ELSE /\ stations' = {s \in stations : s.id # station_id}
             /\ ratings' = SelectSeq(ratings, NotOf)
             /\ prices' = SelectSeq(prices, NotOf)
             /\ plans' = [p \in 1..Len(plans) |->
                            [plans[p] EXCEPT !.selected_stations = SelectSeq(@, NotIt)]]
             /\ last' = [op |-> "delete_station", status |-> 302,
                         station_id |-> station_id]
             /\ UNCHANGED <<zone_prices, seasonal, captured, spots>>

(***************************************************************************)
(* update_spot_count served by two workers side by side.  Each worker has  *)
(* its own session: what it read at its lookup is what it acts on at its   *)
(* commit.  Counts are positive, so no row is deleted and the positions    *)
(* of the rows are their identities.                                       *)
(***************************************************************************)
\* update_spot_count up to the lookup of the spot by its key.
update_spot_count_lookup(w, plan_id, station_id, time_slot, date, new_count, is_weekend_row) ==
    LET req == [op |-> "update_spot_count", plan_id |-> plan_id,
                station_id |-> station_id, time_slot |-> time_slot, date |-> date,
                new_count |-> new_count, is_weekend_row |-> is_weekend_row]
    IN  /\ inflight[w] = Idle
        /\ new_count > 0
        /\ requests < MaxRequests
        /\ requests' = requests + 1
        /\ IF ~PlanExists(plan_id)
           THEN /\ last' = req @@ [status |-> 500, path |-> "error"]
                /\ UNCHANGED inflight
           ELSE IF ~StationExists(station_id)
           THEN /\ last' = req @@ [status |-> 404, path |-> "error"]
                /\ UNCHANGED inflight
           ELSE /\ inflight' = [inflight EXCEPT ![w] =
                       req @@ [spot |-> FirstIndex(SpotKeyMatch(plan_id, station_id,
                                                       time_slot, date, is_weekend_row))]]
                /\ UNCHANGED last
        /\ UNCHANGED <<catalog, plans, captured, spots>>

\* update_spot_count from the lookup's result to the commit.
update_spot_count_commit(w) ==
    LET req == inflight[w]
    IN  /\ req # Idle
        /\ IF req.spot # 0
           THEN /\ spots' = [spots EXCEPT ![req.spot].spot_count = req.new_count]
                /\ last' = req @@ [status |-> 200, path |-> "update", worker |-> w]
           ELSE /\ spots' = Append(spots, NewSpotFromCaptured(req.plan_id,
                                     req.station_id, req.time_slot, req.date,
                                     req.new_count, req.is_weekend_row))
                /\ last' = [req EXCEPT !.spot = Len(spots) + 1]
                             @@ [status |-> 200, path |-> "create", worker |-> w]
        /\ inflight' = [inflight EXCEPT ![w] = Idle]
        /\ UNCHANGED <<catalog, plans, captured, requests>>

(***************************************************************************)
(* The requests the model draws.                                           *)
(***************************************************************************)
Given(v) == [given |-> TRUE, value |-> v]
NotGiven == [given |-> FALSE, value |-> 0]

PlanRequests ==
    { [campaign_id |-> 1,
       start_date |-> Date(2025, 1, 15), end_date |-> Date(2025, 2, 10),
       our_discount |-> 10, client_discount |-> 10, stations |-> <<1, 2, 3>>,
       clips |-> <<30>>],
      [campaign_id |-> 1,
       start_date |-> Date(2024, 12, 20), end_date |-> Date(2026, 1, 10),
       stations |-> <<1>>],
      [campaign_id |-> 1,
       start_date |-> Date(2025, 2, 30), end_date |-> Date(2025, 3, 10),
       stations |-> <<1>>],
      [campaign_id |-> 1, start_date |-> Date(2025, 1, 15), stations |-> <<1>>] }
TargetAudiences == {"All"}
PlanIds == 1..MaxPlans
StationIds == {1, 3}
SpotDates == {Date(2025, 1, 20), Date(2025, 2, 3)}
SpotCounts == {0, 1, 2}
\* Spot requests for an unknown station, without a station and with the
\* date string 2025-02-30.
BadSpotRequests ==
    { [station_id |-> 3, date |-> Date(2025, 1, 20)],
      [station_id |-> 0, date |-> Date(2025, 1, 20)],
      [station_id |-> 1, date |-> Date(2025, 2, 30)] }

Init ==
    /\ stations = {[id |-> 1, group_id |-> 1, name |-> "M-1"],
                    [id |-> 2, group_id |-> 2, name |-> "Lietus"]}
    /\ ratings = << [station_id |-> 1, time_slot |-> S0700, target_audience |-> "All",
                     grp |-> 4, trp |-> 2, is_weekend |-> FALSE, is_active |-> TRUE] >>
    /\ prices = << [station_id |-> 1, time_slot |-> S0700, price |-> 120,
                    is_weekend |-> FALSE, is_active |-> TRUE] >>
    /\ zone_prices = << [station_id |-> 1, zone |-> "A", duration |-> "60s",
                         price |-> 150, is_weekend |-> FALSE] >>
    /\ seasonal = [m \in 1..12 |->
                     [month |-> m, group_id |-> NoGroup, index_value |-> 10,
                      is_active |-> TRUE]]
    /\ plans = <<>>
    /\ captured = <<>>
    /\ spots = <<>>
    /\ last = [op |-> "init", status |-> 0]
    /\ requests = 0
    /\ inflight = [w \in Workers |-> Idle]

\* A request served from its start to its commit with no other request in
\* between, MaxRequests in all.
Serve(handler) ==
    /\ requests < MaxRequests
    /\ requests' = requests + 1
    /\ handler
    /\ UNCHANGED inflight

Next ==
    \/ \E rq \in PlanRequests, a \in TargetAudiences, resp \in ExtResponses,
          f \in Faults :
          Serve(create_plan([target_audience |-> a] @@ rq, resp, f))
    \/ \E p \in PlanIds, st \in StationIds, n \in {0, 1} :
          Serve(add_spot(p, st, Date(2025, 1, 20), S0700, n, 30))
    \/ \E p \in PlanIds, d \in SpotDates, n \in SpotCounts :
          Serve(update_spot_count(p, 1, S0700, d, n, FALSE))
    \/ \E p \in PlanIds, rq \in BadSpotRequests :
          Serve(update_spot_count(p, rq.station_id, S0700, rq.date, 1, FALSE))
    \/ Serve(update_seasonal_index(1, 12))
    \/ Serve(update_station_zone_price(1, "A", "30s", 100, FALSE))
    \/ Serve(update_station_time_slot_price(1, S0700, FALSE, 80))
    \/ Serve(update_station_rating(1, S0700, FALSE, 6, 3))
    \/ \E p \in PlanIds : Serve(update_plan_seasonal_index(p, 1, S0700, FALSE, 15))
    \/ \E p \in PlanIds : Serve(update_plan_discounts(p, Given(20), NotGiven))

Spec == Init /\ [][Next]_vars

(***************************************************************************)
(* The price and zone resolvers over a range of catalogs.                  *)
(***************************************************************************)
ZoneRow(station_id, zone, duration, price, is_weekend) ==
    [station_id |-> station_id, zone |-> zone, duration |-> duration,
     price |-> price, is_weekend |-> is_weekend]

FlatRow(station_id, time_slot, price, is_weekend, is_active) ==
    [station_id |-> station_id, time_slot |-> time_slot, price |-> price,
     is_weekend |-> is_weekend, is_active |-> is_active]

\* StationZonePrice tables: none; zone A in ascending and in descending
\* order of duration; one long duration and a weekend row; rows of another
\* zone and of another station; a row whose price is 0.
ZoneCatalogs ==
    { <<>>,
      << ZoneRow(1, "A", "15s", 50, FALSE), ZoneRow(1, "A", "30s", 100, FALSE),
         ZoneRow(1, "A", "60s", 150, FALSE) >>,
      << ZoneRow(1, "A", "60s", 150, FALSE), ZoneRow(1, "A", "30s", 100, FALSE),
         ZoneRow(1, "A", "15s", 50, FALSE) >>,
      << ZoneRow(1, "A", "60s", 150, FALSE), ZoneRow(1, "D", "30s", 70, TRUE) >>,
      << ZoneRow(1, "B", "30s", 90, FALSE), ZoneRow(2, "A", "15s", 40, FALSE) >>,
      << ZoneRow(1, "A", "30s", 0, FALSE), ZoneRow(1, "A", "60s", 150, FALSE) >> }

\* StationPrice tables: none; an active row; an inactive row before an
\* active one; a weekend row.
FlatCatalogs ==
    { <<>>,
      << FlatRow(1, S0700, 120, FALSE, TRUE) >>,
      << FlatRow(1, S0700, 110, FALSE, FALSE), FlatRow(1, S0700, 120, FALSE, TRUE) >>,
      << FlatRow(1, S0700, 60, TRUE, TRUE) >> }

\* Every half-hour slot of the day, HH:00-HH:30 and HH:30-(HH+1):00.
WellFormedSlots ==
    {Slot(h, 0, h, 30) : h \in 0..23} \cup {Slot(h, 30, (h + 1) % 24, 0) : h \in 0..23}

PriceSlots == {S0700, Slot(10, 0, 10, 30), <<>>}
PriceDurations == {15, 25, 30, 65}

InitResolve ==
    /\ stations = {[id |-> 1, group_id |-> 1, name |-> "M-1"],
                    [id |-> 2, group_id |-> 2, name |-> "Lietus"]}
    /\ ratings = <<>>
    /\ prices \in FlatCatalogs
    /\ zone_prices \in ZoneCatalogs
    /\ seasonal = <<>>
    /\ plans = <<>>
    /\ captured = <<>>
    /\ spots = <<>>
    /\ last = [op |-> "init", status |-> 0]
    /\ requests = 0
    /\ inflight = [w \in Workers |-> Idle]

NextResolve ==
    \/ \E st \in StationIds, ts \in PriceSlots, d \in PriceDurations, we \in BOOLEAN :
          Serve(get_station_price_for_duration(st, ts, d, we))
    \/ \E ts \in WellFormedSlots, we \in BOOLEAN : Serve(resolve_zone(ts, we))

SpecResolve == InitResolve /\ [][NextResolve]_vars

(***************************************************************************)
(* Capture and the price resolver over the same catalogs.                  *)
(***************************************************************************)
\* Plans of one month for station 1: without a clip, and with first clips of
\* 25, 30 and 65 seconds.
CapturePlanRequests ==
    { [campaign_id |-> 1, target_audience |-> "All",
       start_date |-> Date(2025, 1, 15), end_date |-> Date(2025, 1, 20),
       stations |-> <<1>>, clips |-> c] : c \in {<<>>, <<25>>, <<30, 15>>, <<65>>} }
CaptureSlots == {S0700, Slot(10, 0, 10, 30), Slot(19, 0, 19, 30)}

NextCapture ==
    \/ \E rq \in CapturePlanRequests : Serve(create_plan(rq, ExtDown, "none"))
    \/ \E ts \in CaptureSlots, d \in PriceDurations, we \in BOOLEAN :
          Serve(get_station_price_for_duration(1, ts, d, we))

SpecCapture == InitResolve /\ [][NextCapture]_vars

(***************************************************************************)
(* Plans, spots in and outside the slot grid, discounts and the calendar.  *)
(***************************************************************************)
S0600 == Slot(6, 0, 6, 30)

\* A plan of four days for station 1, and a plan across a month end for
\* station 2 with a discount above 100.
CalendarPlanRequests ==
    { [campaign_id |-> 1, target_audience |-> "All",
       start_date |-> Date(2025, 1, 18), end_date |-> Date(2025, 1, 21),
       stations |-> <<1>>, clips |-> <<30>>],
      [campaign_id |-> 1, target_audience |-> "All",
       start_date |-> Date(2025, 1, 30), end_date |-> Date(2025, 2, 2),
       our_discount |-> 150, stations |-> <<2>>] }
CalendarSlots == {S0700, S0600}
CalendarDiscounts == {20, 150}

NextCalendar ==
    \/ \E rq \in CalendarPlanRequests : Serve(create_plan(rq, ExtFull, "none"))
    \/ \E p \in PlanIds, ts \in CalendarSlots, n \in {1, 2} :
          Serve(add_spot(p, 1, Date(2025, 1, 20), ts, n, 30))
    \/ \E p \in PlanIds, ts \in CalendarSlots, n \in SpotCounts :
          Serve(update_spot_count(p, 1, ts, Date(2025, 1, 20), n, FALSE))
    \/ \E p \in PlanIds, v \in CalendarDiscounts :
          Serve(update_plan_discounts(p, Given(v), NotGiven))
    \/ \E p \in PlanIds : Serve(plan_calendar(p))

SpecCalendar == Init /\ [][NextCalendar]_vars

(***************************************************************************)
(* Station administration: price writers, import and deletion.             *)
(***************************************************************************)
S0730 == Slot(7, 30, 8, 0)

\* Sheets of the price workbook: a row for a station and slot that have a
\* price; two rows for one slot of a station the catalog does not know.
PriceSheets ==
    { << [Station |-> "M-1", Time |-> S0700, Price |-> 99, Weekend |-> FALSE] >>,
      << [Station |-> "Pulsas", Time |-> S0700, Price |-> 50, Weekend |-> FALSE],
         [Station |-> "Pulsas", Time |-> S0700, Price |-> 60, Weekend |-> FALSE] >> }
StationNames == {"M-1", "Pulsas"}
AdminStationIds == {1, 2, 3, 4}
AdminSlots == {S0700, S0730}
RatingInputs == {<<NotGiven, NotGiven>>, <<Given(6), Given(3)>>}

\* A plan for station 2 only.
AdminPlanRequest ==
    [campaign_id |-> 1, target_audience |-> "All",
     start_date |-> Date(2025, 1, 15), end_date |-> Date(2025, 1, 20),
     stations |-> <<2>>]

NextAdmin ==
    \/ \E st \in {1, 4} : Serve(update_station_time_slot_price(st, S0700, FALSE, 80))
    \/ \E st \in {1, 4}, ts \in AdminSlots :
          Serve(update_station_price(st, ts, FALSE, 90))
    \/ \E st \in {1, 4}, ts \in AdminSlots, gt \in RatingInputs :
          Serve(update_station_data(st, ts, FALSE, 95, gt[1], gt[2]))
    \/ \E nm \in StationNames : Serve(add_station(nm, 1))
    \/ \E df \in PriceSheets : Serve(import_station_prices(df))
    \/ \E st \in AdminStationIds : Serve(delete_station(st))
    \/ Serve(create_plan(AdminPlanRequest, ExtDown, "none"))
    \/ \E p \in PlanIds, st \in {2, 3} :
          Serve(add_spot(p, st, Date(2025, 1, 20), S0700, 1, 30))

SpecAdmin == Init /\ [][NextAdmin]_vars

(***************************************************************************)
(* Two workers serving update_spot_count.                                  *)
(***************************************************************************)
RacePlanRequest ==
    [campaign_id |-> 1, target_audience |-> "All",
     start_date |-> Date(2025, 1, 15), end_date |-> Date(2025, 1, 20),
     stations |-> <<1>>, clips |-> <<30>>]
RaceCounts == {1, 2}

NextRace ==
    \/ Serve(create_plan(RacePlanRequest, ExtFull, "none"))
    \/ \E w \in Workers, p \in PlanIds, st \in StationIds, n \in RaceCounts :
          update_spot_count_lookup(w, p, st, S0700, Date(2025, 1, 20), n, FALSE)
    \/ \E w \in Workers : update_spot_count_commit(w)

SpecRace == Init /\ [][NextRace]_vars

(***************************************************************************)
(* Properties.                                                             *)
(***************************************************************************)
CatalogEdits == {"update_station_zone_price", "update_station_time_slot_price",
                 "update_station_rating", "update_seasonal_index"}

\* The captured rows of a plan for a station, time slot and weekend flag.
SnapshotRows(plan_id, station_id, time_slot, is_weekend) ==
    {i \in 1..Len(captured) :
        /\ captured[i].plan_id = plan_id
        /\ captured[i].station_id = station_id
        /\ captured[i].time_slot = time_slot
        /\ captured[i].is_weekend = is_weekend}

\* The captured rows a spot is priced from.
SnapshotRowsOfSpot(sp) ==
    SnapshotRows(sp.plan_id, sp.station_id, sp.time_slot, IsWeekendDate(sp.date))

\* The last request created a spot, through update_spot_count or add_spot.
CreatedByUpdate == last.op = "update_spot_count" /\ last.path = "create"
CreatedByAdd == last.op = "add_spot" /\ last.status = 201

\* C1: a live-catalog edit (zone price, time-slot price, rating, stored
\* seasonal index) leaves every captured row of every plan as it was.
C1_CatalogEditKeepsSnapshot ==
    [][last'.op \in CatalogEdits => captured' = captured]_vars

\* C1 witness: a rating was edited after a plan captured it, and the
\* captured grp is no longer the live grp.
C1_Witness ==
    /\ last.op = "update_station_rating"
    /\ last.status = 200
    /\ \E i \in 1..Len(captured), r \in 1..Len(ratings) :
          /\ captured[i].station_id = ratings[r].station_id
          /\ captured[i].time_slot = ratings[r].time_slot
          /\ captured[i].is_weekend = ratings[r].is_weekend
          /\ captured[i].grp # ratings[r].grp

C3_NewSpotFromSnapshot ==
    (CreatedByUpdate \/ CreatedByAdd) =>
        LET sp == spots[last.spot]
        IN  SnapshotRowsOfSpot(sp) # {} =>
              \E i \in SnapshotRowsOfSpot(sp) :
                  /\ sp.grp = captured[i].grp * sp.spot_count
                  /\ sp.trp = captured[i].trp * sp.spot_count
                  /\ sp.affinity = captured[i].affinity
                  /\ sp.base_price = captured[i].base_price
                  /\ sp.seasonal_index = captured[i].seasonal_index

\* C4 as stated: after update_spot_count sets the count of an existing spot
\* to n > 0, the spot's grp and trp are the captured per-unit values times n.
C4_UpdateRescalesRatings ==
    (last.op = "update_spot_count" /\ last.path = "update") =>
        LET sp == spots[last.spot]
        IN  SnapshotRowsOfSpot(sp) # {} =>
              \E i \in SnapshotRowsOfSpot(sp) :
                  /\ sp.grp = captured[i].grp * last.new_count
                  /\ sp.trp = captured[i].trp * last.new_count

\* C5 as stated: every stored spot's final_price is its base_price times its
\* seasonal_index, discounted by the plan's current discounts in turn.
C5_FinalPriceCurrent ==
    \A s \in 1..Len(spots) :
        spots[s].final_price =
            spots[s].base_price * spots[s].seasonal_index
              * (100 - plans[spots[s].plan_id].our_discount)
              * (100 - plans[spots[s].plan_id].client_discount)

\* C6 as stated: every stored spot has spot_count > 0.
C6_StoredCountPositive ==
    \A s \in 1..Len(spots) : spots[s].spot_count > 0

\* C7: a spot that update_spot_count creates on a natural key, also one
\* whose earlier spot it has deleted, is computed from a captured row of the
\* plan, the plan's current discounts and the new count, whatever the
\* deleted spot held.
C7_RecreatedFromSnapshot ==
    CreatedByUpdate =>
        LET sp == spots[last.spot]
            pl == plans[sp.plan_id]
        IN  SnapshotRowsOfSpot(sp) # {} =>
              \E i \in SnapshotRowsOfSpot(sp) :
                  /\ sp.spot_count = last.new_count
                  /\ sp.grp = captured[i].grp * last.new_count
                  /\ sp.trp = captured[i].trp * last.new_count
                  /\ sp.affinity = captured[i].affinity
                  /\ sp.base_price = captured[i].base_price
                  /\ sp.seasonal_index = captured[i].seasonal_index
                  /\ sp.final_price =
                        captured[i].base_price * captured[i].seasonal_index
                          * (100 - pl.our_discount) * (100 - pl.client_discount)

\* C7 witness: the spot of a key was deleted and created again with another
\* count, and the new spot's grp and count are not the deleted spot's.
C7_Witness ==
    /\ CreatedByUpdate
    /\ last.stale # NoRow
    /\ SnapshotRowsOfSpot(spots[last.spot]) # {}
    /\ last.stale.grp # spots[last.spot].grp
    /\ last.stale.grp > 0
    /\ last.stale.spot_count # spots[last.spot].spot_count

\* C8 as stated: the spot update_spot_count creates takes the seasonal index
\* of the captured rows of the month of its date.
C8_SeasonalIndexOfSpotMonth ==
    CreatedByUpdate =>
        LET sp == spots[last.spot]
        IN  \A i \in SnapshotRowsOfSpot(sp) :
                captured[i].month = sp.date.m
                    => sp.seasonal_index = captured[i].seasonal_index

\* The calendar month numbers a date range touches.
MonthIndex(dt) == dt.y * 12 + dt.m - 1
DistinctMonths(start_date, end_date) ==
    {(a % 12) + 1 : a \in MonthIndex(start_date)..MonthIndex(end_date)}

\* C9 as stated: capture writes stations x distinct month numbers x time
\* slots x 2 rows for a plan whose start_date is not after its end_date.
C9_RowCount ==
    \A p \in 1..Len(plans) :
        DateLE(plans[p].start_date, plans[p].end_date) =>
            Cardinality({i \in 1..Len(captured) : captured[i].plan_id = p})
              = Len(plans[p].selected_stations)
                  * Cardinality(DistinctMonths(plans[p].start_date, plans[p].end_date))
                  * Len(generate_time_slots) * 2

\* C10 as stated: no two captured rows share (plan, station, time_slot,
\* is_weekend, month).
C10_SnapshotKeyUnique ==
    \A i, j \in 1..Len(captured) :
        (/\ captured[i].plan_id = captured[j].plan_id
         /\ captured[i].station_id = captured[j].station_id
         /\ captured[i].time_slot = captured[j].time_slot
         /\ captured[i].is_weekend = captured[j].is_weekend
         /\ captured[i].month = captured[j].month) => i = j

\* The seasonal index the resolution order gives a station and month: the
\* active stored row of the station's group, else the active stored global
\* row, else the external service's value, else 1.0.
ResolutionOrderIndex(station_id, month, response) ==
    LET group  == {i \in 1..Len(seasonal) :
                      /\ seasonal[i].is_active
                      /\ seasonal[i].month = month
                      /\ StationGroup(station_id) # NoGroup
                      /\ seasonal[i].group_id = StationGroup(station_id)}
        global == {i \in 1..Len(seasonal) :
                      /\ seasonal[i].is_active
                      /\ seasonal[i].month = month
                      /\ seasonal[i].group_id = NoGroup}
    IN  IF group # {} THEN seasonal[FirstIndex(group)].index_value
        ELSE IF global # {} THEN seasonal[FirstIndex(global)].index_value
        ELSE IF response.status = 200 /\ month <= Len(response.inputs)
             THEN response.inputs[month]
        ELSE 10

\* C11 as stated: the seasonal_index capture writes for a station and month
\* follows the resolution order group row, global row, external service, 1.0.
C11_CaptureFollowsResolutionOrder ==
    (last.op = "create_plan" /\ last.status = 201) =>
        \A i \in 1..Len(captured) :
            captured[i].plan_id = last.plan_id =>
                captured[i].seasonal_index =
                    ResolutionOrderIndex(captured[i].station_id,
                                         captured[i].month, last.response)

\* C12: the final_price of a spot at its creation, by update_spot_count or
\* add_spot, is base_price x seasonal_index discounted by our_discount and
\* then by client_discount, and it is not the price with the two discounts
\* added when both are positive and the price is.
C12_DiscountsSequential ==
    (CreatedByUpdate \/ CreatedByAdd) =>
        LET sp == spots[last.spot]
            o  == plans[sp.plan_id].our_discount
            c  == plans[sp.plan_id].client_discount
            price_with_index == sp.base_price * sp.seasonal_index
        IN  /\ sp.final_price = (price_with_index * (100 - o)) * (100 - c)
            /\ (price_with_index > 0 /\ o > 0 /\ c > 0) =>
                  sp.final_price # price_with_index * (100 - (o + c)) * 100

\* C12 witness: a spot created at base price 150 in a plan whose two
\* discounts are 10: 150 x 0.9 x 0.9 per unit of index, not 150 x 0.8.
C12_Witness ==
    /\ CreatedByUpdate
    /\ plans[spots[last.spot].plan_id].our_discount = 10
    /\ plans[spots[last.spot].plan_id].client_discount = 10
    /\ spots[last.spot].base_price = 150
    /\ spots[last.spot].final_price = 150 * spots[last.spot].seasonal_index * 8100

\* C13 as stated: a created spot's price_per_trp is base_price / trp / 100
\* when its trp is positive and 0 otherwise, on both creation paths.
C13_PricePerTrp ==
    (CreatedByUpdate \/ CreatedByAdd) =>
        LET sp == spots[last.spot]
        IN  IF sp.trp > 0
            THEN sp.price_per_trp.n * (sp.trp * 100)
                    = sp.base_price * sp.price_per_trp.d
            ELSE sp.price_per_trp.n = 0

\* C14 as stated: at most one spot exists per natural key (plan, station,
\* date, time_slot, is_weekend_row).
C14_OneSpotPerKey ==
    \A i, j \in 1..Len(spots) :
        (/\ spots[i].plan_id = spots[j].plan_id
         /\ spots[i].station_id = spots[j].station_id
         /\ spots[i].date = spots[j].date
         /\ spots[i].time_slot = spots[j].time_slot
         /\ spots[i].is_weekend_row = spots[j].is_weekend_row) => i = j

\* The rows capture writes for a plan: one per selected station, month of
\* the plan's range, time slot and weekend flag.
SnapshotComplete(p, allplans, allcaptured) ==
    Cardinality({i \in 1..Len(allcaptured) : allcaptured[i].plan_id = p})
        = Len(allplans[p].selected_stations)
            * Len(MonthsInPlan(allplans[p].start_date, allplans[p].end_date))
            * Len(generate_time_slots) * 2

\* C15: a create_plan that fails leaves no plan and no captured row behind,
\* and after every request every stored plan has its whole snapshot.
C15_CreatePlanAtomic ==
    [][/\ (last'.op = "create_plan" /\ last'.status # 201) =>
              (plans' = plans /\ captured' = captured)
       /\ \A p \in 1..Len(plans') : SnapshotComplete(p, plans', captured')]_vars

\* C15 witness: create_plan has failed inside capture, after the plan, its
\* stations and clips were added, and the store holds no plan and no row.
C15_Witness ==
    /\ last.op = "create_plan"
    /\ last.status = 500
    /\ last.fault = "capture"
    /\ plans = <<>>
    /\ captured = <<>>

\* The seasonal service gives no index for a month.
ServiceFails(response, month) ==
    response.status # 200 \/ month > Len(response.inputs)

\* C16: a create_plan in which nothing but the seasonal service fails answers
\* 201 with the plan's whole snapshot written, the rows of the months the
\* service gives no index for at 1.0.
C16_ServiceFailureTolerated ==
    (last.op = "create_plan" /\ last.fault = "none") =>
        /\ last.status = 201
        /\ SnapshotComplete(last.plan_id, plans, captured)
        /\ \A i \in 1..Len(captured) :
              (/\ captured[i].plan_id = last.plan_id
               /\ ServiceFails(last.response, captured[i].month))
                  => captured[i].seasonal_index = 10

\* C16 witness: a plan was created while the service did not answer, and
\* its rows are there.
C16_Witness ==
    /\ last.op = "create_plan"
    /\ last.status = 201
    /\ last.response = ExtDown
    /\ \E i \in 1..Len(captured) :
          captured[i].plan_id = last.plan_id /\ captured[i].seasonal_index = 10

\* C17 as stated: a request that names a plan or station that does not
\* exist (update_spot_count and update_plan_discounts with an unknown plan,
\* update_spot_count with an unknown station, create_plan with an unknown
\* station in its list) is answered 404 and changes nothing.
C17_UnknownIdsNotFound ==
    [][LET unknown ==
              \/ /\ last'.op = "update_spot_count"
                 /\ \/ ~PlanExists(last'.plan_id)
                    \/ last'.station_id # 0 /\ ~StationExists(last'.station_id)
              \/ /\ last'.op = "update_plan_discounts"
                 /\ ~PlanExists(last'.plan_id)
              \/ /\ last'.op = "create_plan"
                 /\ "stations" \in DOMAIN last'
                 /\ \E i \in 1..Len(last'.stations) :
                        ~StationExists(last'.stations[i])
       IN  unknown => /\ last'.status = 404
                      /\ UNCHANGED <<catalog, plans, captured, spots>>]_vars

\* C18 as stated: a create_plan with a required field missing or a
\* start_date or end_date that does not parse, and an update_spot_count on
\* an existing plan and station with a field missing or a date that does
\* not parse, are answered 400 and change nothing.
C18_InvalidRequestsRejected ==
    [][LET invalid ==
              \/ /\ last'.op = "create_plan"
                 /\ "data" \in DOMAIN last'
                 /\ \/ \E f \in RequiredFields : f \notin DOMAIN last'.data
                    \/ ~IsDate(last'.data.start_date)
                    \/ ~IsDate(last'.data.end_date)
              \/ /\ last'.op = "update_spot_count"
                 /\ PlanExists(last'.plan_id)
                 /\ \/ last'.station_id = 0
                    \/ StationExists(last'.station_id) /\ ~IsDate(last'.date)
       IN  invalid => /\ last'.status = 400
                      /\ UNCHANGED <<catalog, plans, captured, spots>>]_vars

\* The zone of a start hour and weekend flag, as the rate card gives it.
ZoneOf(hour, is_weekend) ==
    IF is_weekend THEN "D"
    ELSE IF hour \in 7..9 THEN "A"
    ELSE IF hour \in 10..11 \cup 16..17 THEN "B"
    ELSE IF hour \in 12..15 THEN "C"
    ELSE "D"

\* The ZonePrice rows of a station, zone and weekend flag whose duration is
\* at least d.
ZoneCandidates(station_id, zone, is_weekend, d) ==
    {i \in 1..Len(zone_prices) :
        /\ zone_prices[i].station_id = station_id
        /\ zone_prices[i].zone = zone
        /\ zone_prices[i].is_weekend = is_weekend
        /\ DurationSeconds(zone_prices[i].duration) >= d}

\* The active TimeSlotPrice rows of a station, time slot and weekend flag.
FlatCandidates(station_id, time_slot, is_weekend) ==
    {i \in 1..Len(prices) :
        /\ prices[i].station_id = station_id
        /\ prices[i].time_slot = time_slot
        /\ prices[i].is_weekend = is_weekend
        /\ prices[i].is_active}

\* C19: for an existing station and a time slot, the price resolver answers
\* the price of a candidate zone row of smallest duration, tagged zone_price;
\* if there is no candidate, the price of an active exact time-slot row,
\* tagged station_price_fallback; if there is none, 0 tagged not_found.
C19_PriceResolverReference ==
    (/\ last.op = "get_station_price_for_duration"
     /\ StationExists(last.station_id)
     /\ last.time_slot # <<>>) =>
        LET zc == ZoneCandidates(last.station_id,
                                 ZoneOf(last.time_slot[1], last.is_weekend),
                                 last.is_weekend, last.duration)
            fc == FlatCandidates(last.station_id, last.time_slot, last.is_weekend)
        IN  /\ last.status = 200
            /\ IF zc # {}
               THEN /\ last.source = "zone_price"
                    /\ \E i \in zc :
                          /\ \A j \in zc : DurationSeconds(zone_prices[i].duration)
                                             <= DurationSeconds(zone_prices[j].duration)
                          /\ last.price = zone_prices[i].price
               ELSE IF fc # {}
               THEN /\ last.source = "station_price_fallback"
                    /\ \E i \in fc : last.price = prices[i].price
               ELSE last.source = "not_found" /\ last.price = 0

\* C19 witness: with zone durations 60, 30 and 15 stored in that order, a
\* request for 25 seconds was answered with the 30-second price.
C19_Witness ==
    /\ last.op = "get_station_price_for_duration"
    /\ last.status = 200
    /\ last.duration = 25
    /\ last.source = "zone_price"
    /\ last.matched_duration = "30s"
    /\ Len(zone_prices) = 3
    /\ zone_prices[1].duration = "60s"

\* C20: both zone resolvers give D for a weekend slot whatever its hour, and
\* for a weekday slot A for hours 7-9, B for 10-11 and 16-17, C for 12-15
\* and D for every other hour.
C20_ZoneResolver ==
    last.op = "get_zone_for_time_slot" =>
        /\ last.zone \in {"A", "B", "C", "D"}
        /\ last.zone = ZoneOf(last.time_slot[1], last.is_weekend)
        /\ last.price_zone = last.zone

\* C20 witness: a weekend slot in the morning hours resolved to D.
C20_Witness ==
    /\ last.op = "get_zone_for_time_slot"
    /\ last.is_weekend
    /\ last.time_slot[1] = 8
    /\ last.zone = "D"

\* The sum of f over the set S of its arguments.
RECURSIVE SumOver(_, _)
SumOver(f, S) ==
    IF S = {} THEN 0
    ELSE LET x == CHOOSE y \in S : TRUE IN f[x] + SumOver(f, S \ {x})

\* The positions in spots of the spots of a plan.
SpotsOfPlan(plan_id) == {i \in 1..Len(spots) : spots[i].plan_id = plan_id}

\* C21 as stated: the calendar's grand totals are the sums of grp, trp,
\* final_price and spot_count over all the spots of the plan, and the sums of
\* its per-time-slot totals.
C21_TotalsCoverAllSpots ==
    (last.op = "plan_calendar" /\ last.status = 200) =>
        LET cal == last.calendar
            mine == SpotsOfPlan(last.plan_id)
            ts == DOMAIN cal.time_slots
        IN  /\ cal.totals.grp = SumOver([i \in mine |-> spots[i].grp], mine)
            /\ cal.totals.trp = SumOver([i \in mine |-> spots[i].trp], mine)
            /\ cal.totals.price = SumOver([i \in mine |-> spots[i].final_price], mine)
            /\ cal.totals.spots = SumOver([i \in mine |-> spots[i].spot_count], mine)
            /\ cal.totals.grp = SumOver([t \in ts |-> cal.time_slots[t].total_grp], ts)
            /\ cal.totals.trp = SumOver([t \in ts |-> cal.time_slots[t].total_trp], ts)
            /\ cal.totals.price
                 = SumOver([t \in ts |-> cal.time_slots[t].total_price], ts)

\* C27 as stated: the calendar lists every date from start_date to end_date
\* once and in order, holds a per-slot entry exactly for the time slots in
\* which the plan has a spot, and computing it changes nothing in the store.
C27_CalendarDatesAndSlots ==
    [][(last'.op = "plan_calendar" /\ last'.status = 200) =>
          LET cal == last'.calendar
              plan == plans[last'.plan_id]
              first == DaysFromCivil(plan.start_date)
              n == DaysFromCivil(plan.end_date) - first + 1
          IN  /\ <<catalog, plans, captured, spots>>' = <<catalog, plans, captured, spots>>
              /\ Len(cal.dates) = IF n > 0 THEN n ELSE 0
              /\ \A i \in 1..Len(cal.dates) :
                    /\ IsDate(cal.dates[i].date)
                    /\ DaysFromCivil(cal.dates[i].date) = first + i - 1
              /\ DOMAIN cal.time_slots
                   = {spots[i].time_slot : i \in SpotsOfPlan(last'.plan_id)}]_vars

\* C22 as stated: every plan's our_discount and client_discount lie in
\* [0, 100], and no stored spot has a negative final_price.
C22_DiscountsInRange ==
    /\ \A p \in 1..Len(plans) :
          /\ plans[p].our_discount \in 0..100
          /\ plans[p].client_discount \in 0..100
    /\ \A i \in 1..Len(spots) : spots[i].final_price >= 0

\* The price the price resolver gives for a station, time slot, weekend flag
\* and duration: the matched zone price, else the active flat price, else 0.
ResolvedPrice(station_id, time_slot, is_weekend, duration) ==
    LET zc == ZoneCandidates(station_id, ZoneOf(time_slot[1], is_weekend),
                             is_weekend, duration)
    IN  IF zc # {}
        THEN zone_prices[CHOOSE i \in zc : \A j \in zc :
                            /\ DurationSeconds(zone_prices[i].duration)
                                 <= DurationSeconds(zone_prices[j].duration)
                            /\ (DurationSeconds(zone_prices[i].duration)
                                  = DurationSeconds(zone_prices[j].duration) => i <= j)
                        ].price
        ELSE get_current_price(station_id, time_slot, is_weekend)

\* C24 as stated: a spot update_spot_count creates where the plan has no
\* captured row takes grp, trp and affinity from the matching active rating
\* and base_price from the price resolver, so with a live rating and a live
\* price they are not zero.  (The seasonal index is not compared.)
C24_LiveFallback ==
    (/\ last.op = "update_spot_count"
     /\ last.path = "create"
     /\ CapturedFor(last.plan_id, last.station_id, last.time_slot,
                    IsWeekendDate(last.date)) = 0) =>
        LET sp == spots[last.spot]
            we == IsWeekendDate(last.date)
            r  == ActiveRating(last.station_id, last.time_slot,
                               plans[last.plan_id].target_audience, we)
            bp == ResolvedPrice(last.station_id, last.time_slot, we, sp.clip_duration)
        IN  /\ sp.grp = IF r # 0 THEN ratings[r].grp * last.new_count ELSE 0
            /\ sp.trp = IF r # 0 THEN ratings[r].trp * last.new_count ELSE 0
            /\ sp.base_price = bp
            /\ (r # 0 /\ ratings[r].grp > 0 /\ ratings[r].trp > 0 /\ bp > 0) =>
                  (sp.grp > 0 /\ sp.trp > 0 /\ sp.base_price > 0)

\* The identifying key of a spot.
SpotKey(sp) ==
    <<sp.plan_id, sp.station_id, sp.time_slot, sp.date, sp.is_weekend_row>>

\* C26: update_spot_count changes no plan, no captured row and no catalog
\* row; when it updates a spot the spot keeps its key and every other spot is
\* as before; when it creates a spot every spot there was is as before; when
\* it deletes a spot the others are as before, in their order; otherwise the
\* spots are as before.
C26_UpdateSpotCountFrame ==
    [][last'.op = "update_spot_count" =>
          /\ catalog' = catalog
          /\ plans' = plans
          /\ captured' = captured
          /\ CASE last'.path = "update" ->
                    /\ Len(spots') = Len(spots)
                    /\ SpotKey(spots'[last'.spot]) = SpotKey(spots[last'.spot])
                    /\ \A i \in 1..Len(spots) : i # last'.spot => spots'[i] = spots[i]
               [] last'.path = "create" ->
                    /\ Len(spots') = Len(spots) + 1
                    /\ \A i \in 1..Len(spots) : spots'[i] = spots[i]
               [] last'.path = "delete" ->
                    /\ Len(spots') = Len(spots) - 1
                    /\ \E k \in 1..Len(spots) :
                          /\ spots[k] = last'.stale
                          /\ \A i \in 1..Len(spots') :
                                spots'[i] = IF i < k THEN spots[i] ELSE spots[i + 1]
               [] OTHER -> spots' = spots]_vars

\* C26 witness: an update_spot_count changed the count of one spot while the
\* plan held another spot, of another date.
C26_Witness ==
    /\ last.op = "update_spot_count"
    /\ last.path = "update"
    /\ last.old_count # spots[last.spot].spot_count
    /\ \E i \in 1..Len(spots) : i # last.spot /\ spots[i].date # spots[last.spot].date

\* The clip duration a plan's snapshot is priced for.
PlanClipDuration(p) == IF Len(plans[p].clips) > 0 THEN plans[p].clips[1] ELSE 30

ComparableRows ==
    {c \in 1..Len(captured) :
        /\ captured[c].station_id = last.station_id
        /\ captured[c].time_slot = last.time_slot
        /\ captured[c].is_weekend = last.is_weekend
        /\ PlanClipDuration(captured[c].plan_id) = last.duration}

\* C30 as stated: the base_price capture wrote equals the price the resolver
\* returns when its source is zone_price, and capture wrote 0 exactly when
\* the resolver's source is not zone_price.
C30_CaptureAgreesExactly ==
    (last.op = "get_station_price_for_duration" /\ last.status = 200) =>
        \A c \in ComparableRows :
            /\ last.source = "zone_price" => captured[c].base_price = last.price
            /\ captured[c].base_price = 0 <=> last.source # "zone_price"

\* C30, amended: the base_price capture wrote equals the price the resolver
\* returns when its source is zone_price, and is 0 when the resolver's source
\* is not zone_price.
C30_CaptureAgrees ==
    (last.op = "get_station_price_for_duration" /\ last.status = 200) =>
        \A c \in ComparableRows :
            /\ last.source = "zone_price" => captured[c].base_price = last.price
            /\ last.source # "zone_price" => captured[c].base_price = 0

\* C30 witness: the resolver answered a zone price above 0 for a request a
\* captured row can be compared with.
C30_Witness ==
    /\ last.op = "get_station_price_for_duration"
    /\ last.status = 200
    /\ last.source = "zone_price"
    /\ last.price > 0
    /\ ComparableRows # {}

\* C28 as stated: at most one active StationPrice row exists per station,
\* time slot and weekend flag.
C28_OneActivePricePerKey ==
    \A i, j \in 1..Len(prices) :
        (/\ prices[i].is_active
         /\ prices[j].is_active
         /\ prices[i].station_id = prices[j].station_id
         /\ prices[i].time_slot = prices[j].time_slot
         /\ prices[i].is_weekend = prices[j].is_weekend) => i = j

\* Every spot, captured row, zone price, flat price and rating references a
\* station that exists.
ReferencesResolve ==
    /\ \A i \in 1..Len(spots) : StationExists(spots[i].station_id)
    /\ \A i \in 1..Len(captured) : StationExists(captured[i].station_id)
    /\ \A i \in 1..Len(zone_prices) : StationExists(zone_prices[i].station_id)
    /\ \A i \in 1..Len(prices) : StationExists(prices[i].station_id)
    /\ \A i \in 1..Len(ratings) : StationExists(ratings[i].station_id)

\* C29 as stated: after every request every row references a station that
\* exists, and delete_station of a station removes it together with its
\* flat prices, zone prices and ratings.
C29_DeletionKeepsIntegrity ==
    [][/\ ReferencesResolve'
       /\ (last'.op = "delete_station" /\ StationExists(last'.station_id)) =>
             /\ \A s \in stations' : s.id # last'.station_id
             /\ \A i \in 1..Len(zone_prices') :
                   zone_prices'[i].station_id # last'.station_id
             /\ \A i \in 1..Len(prices') : prices'[i].station_id # last'.station_id
             /\ \A i \in 1..Len(ratings') : ratings'[i].station_id # last'.station_id]_vars

\* C23 as stated: once two update_spot_count requests for one key, with
\* positive counts, both looked up the spot before either committed and
\* both have committed, the store holds exactly one spot of that key, and its
\* spot_count is the count of one of the two requests.
C23_InterleavedUpsertOneRow ==
    (/\ \A w \in Workers : inflight[w] = Idle
     /\ last.op = "update_spot_count"
     /\ last.status = 200) =>
        LET rows == SpotKeyMatch(last.plan_id, last.station_id, last.time_slot,
                                 last.date, last.is_weekend_row)
        IN  /\ Cardinality(rows) = 1
            /\ \A i \in rows : spots[i].spot_count \in RaceCounts
====
